---- MODULE Spec2Model ----
(***************************************************************************)
(* State-machine model of DeckLinkSignalGen (src/cpp/decklink_wrapper.cpp) *)
(* and of the DeckLink device it drives.  One action per public method;    *)
(* every device call a method makes is recorded, in order, in `calls`.     *)
(***************************************************************************)
EXTENDS Integers, Sequences, FiniteSets, TLC

\* ------------------------------------------------------------------ bounds
\* largest width / height a caller passes to setFrameData
MaxDim == 2
\* longest caller buffer, in samples
MaxBufLen == 4
\* how many frames the device allocates in one run
MaxFrames == 2

\* ------------------------------------------------- pixel format tags (FourCC)
bmdFormat8BitYUV == 846624121
bmdFormat10BitYUV == 1983000880
bmdFormat10BitYUVA == 1098461488
bmdFormat8BitARGB == 32
bmdFormat8BitBGRA == 1111970369
bmdFormat10BitRGB == 1915892016
bmdFormat12BitRGB == 1378955842
bmdFormat12BitRGBLE == 1378955852
bmdFormat10BitRGBXLE == 1378955372
bmdFormat10BitRGBX == 1378955362

\* ------------------------------------------------------ colorspace tag ('2020')
bmdColorspaceRec2020 == 842019376

VARIABLES
    session,              \* "live", "closed" (destructor ran) or "crashed"
    m_device,             \* IDeckLink* is non-null
    m_output,             \* IDeckLinkOutput* is non-null
    m_frame,              \* 0 = nullptr, else an index into frames
    m_width,
    m_height,
    m_outputEnabled,
    m_pixelFormat,
    m_formatsCached,
    m_supportedFormats,
    m_hdrMetadata,
    m_pendingFrameData,
    frames,               \* the frame objects the device has allocated
    devEnabled,           \* device: video output enabled
    lastOp,               \* the method that ran last
    lastRet,              \* its return value
    lastArgs,             \* the arguments it was called with
    calls,                \* the device calls it made, in order
    stage,                \* position in the session state machine (history)
    dataSetOk,            \* some setFrameData has returned 0 (history)
    lastCreateOk,         \* the most recent createFrame returned 0 (history)
    staleFrame            \* m_frame was built before the last stopOutput (history)

vars == <<session, m_device, m_output, m_frame, m_width, m_height,
          m_outputEnabled, m_pixelFormat, m_formatsCached, m_supportedFormats,
          m_hdrMetadata, m_pendingFrameData, frames, devEnabled, lastOp, lastRet, lastArgs, calls, stage, dataSetOk,
          lastCreateOk, staleFrame>>

sessionVars == <<m_device, m_output, m_frame, m_width, m_height,
                 m_outputEnabled, m_pixelFormat, m_formatsCached,
                 m_supportedFormats, m_hdrMetadata, m_pendingFrameData>>

deviceVars == <<frames, devEnabled>>

\* ------------------------------------------------------------------ helpers
\* one device (or packer) call: its name, whether it succeeded, its arguments
Call(op, ok) == [op |-> op, ok |-> ok, args |-> <<>>]

CallWith(op, ok, args) == [op |-> op, ok |-> ok, args |-> args]

NoFrame == 0

\* the record the constructor stores: EOTF 2 (PQ) with the Rec.2020 values
\* (chromaticities and luminances in units of 1/10000)
DefaultHDRMetadata ==
    [EOTF |-> 2,
     referencePrimaries |->
         [RedX |-> 7080, RedY |-> 2920, GreenX |-> 1700, GreenY |-> 7970,
          BlueX |-> 1310, BlueY |-> 460, WhiteX |-> 3127, WhiteY |-> 3290],
     maxDisplayMasteringLuminance |-> 10000000,
     minDisplayMasteringLuminance |-> 1,
     maxCLL |-> 10000000,
     maxFALL |-> 500000]

\* a record a caller passes to setHDRMetadata: P3 primaries, a 4000 nit display
CallerHDRMetadata(eotf) ==
    [EOTF |-> eotf,
     referencePrimaries |->
         [RedX |-> 6800, RedY |-> 3200, GreenX |-> 2650, GreenY |-> 6900,
          BlueX |-> 1500, BlueY |-> 600, WhiteX |-> 3140, WhiteY |-> 3510],
     maxDisplayMasteringLuminance |-> 40000000,
     minDisplayMasteringLuminance |-> 50,
     maxCLL |-> 40000001,
     maxFALL |-> 4000000]

\* the EOTF codes callers pass: SDR, PQ, HLG, and one below the 0..7 domain
EOTFCodes == {0 - 1, 0, 2, 3}

HDRRecords == {CallerHDRMetadata(e) : e \in EOTFCodes}

\* the mastering-display keys applyHDRMetadata sets, in the order it sets them
MasteringKeys ==
    <<"HDRDisplayPrimariesRedX", "HDRDisplayPrimariesRedY",
      "HDRDisplayPrimariesGreenX", "HDRDisplayPrimariesGreenY",
      "HDRDisplayPrimariesBlueX", "HDRDisplayPrimariesBlueY",
      "HDRWhitePointX", "HDRWhitePointY",
      "HDRMaxDisplayMasteringLuminance", "HDRMinDisplayMasteringLuminance",
      "HDRMaximumContentLightLevel", "HDRMaximumFrameAverageLightLevel">>

\* the member of the record that is written under each key
MasteringValue(md, key) ==
    CASE key = "HDRDisplayPrimariesRedX" -> md.referencePrimaries.RedX
      [] key = "HDRDisplayPrimariesRedY" -> md.referencePrimaries.RedY
      [] key = "HDRDisplayPrimariesGreenX" -> md.referencePrimaries.GreenX
      [] key = "HDRDisplayPrimariesGreenY" -> md.referencePrimaries.GreenY
      [] key = "HDRDisplayPrimariesBlueX" -> md.referencePrimaries.BlueX
      [] key = "HDRDisplayPrimariesBlueY" -> md.referencePrimaries.BlueY
      [] key = "HDRWhitePointX" -> md.referencePrimaries.WhiteX
      [] key = "HDRWhitePointY" -> md.referencePrimaries.WhiteY
      [] key = "HDRMaxDisplayMasteringLuminance" -> md.maxDisplayMasteringLuminance
      [] key = "HDRMinDisplayMasteringLuminance" -> md.minDisplayMasteringLuminance
      [] key = "HDRMaximumContentLightLevel" -> md.maxCLL
      [] key = "HDRMaximumFrameAverageLightLevel" -> md.maxFALL

\* every key of the metadata-extensions interface the session writes
MetadataKeys ==
    {"Colorspace", "HDRElectroOpticalTransferFunc"}
    \cup {MasteringKeys[i] : i \in 1..Len(MasteringKeys)}

\* a caller's buffer: a pointer (null or not) and the samples behind it
Ramp(n, base) == [i \in 1..n |-> base + i]

NullBuffer == [null |-> TRUE, buf |-> <<>>]

\* buffers of every length up to MaxBufLen
CallerBuffers ==
    {NullBuffer} \cup {[null |-> FALSE, buf |-> Ramp(n, 0)] : n \in 0..MaxBufLen}

Dims == 0..MaxDim

\* one-pixel buffers (one of them a sample too long), and dimensions up to 1x1
PixelBuffers ==
    {NullBuffer} \cup {[null |-> FALSE, buf |-> Ramp(3, b)] : b \in {0, 100}}
    \cup {[null |-> FALSE, buf |-> Ramp(4, 0)]}

PixelDims == (0 - 1)..(MaxDim - 1)

\* what a read past the end of the caller's buffer yields
OutOfBoundsReads == {[crash |-> TRUE, fill |-> 65535], [crash |-> FALSE, fill |-> 65535]}

\* the session state machine of the frame session, driven by return values
StageAfter(op, ret) ==
    CASE op = "stopOutput" -> "Idle"
      [] op = "close" -> "Idle"
      [] op = "startOutput" /\ ret = 0 /\ stage = "Idle" -> "OutputEnabled"
      [] op = "createFrame" /\ ret = 0 /\ stage # "Idle" -> "FrameBuilt"
      [] op = "createFrame" /\ ret # 0 /\ stage = "FrameBuilt" -> "OutputEnabled"
      [] op = "scheduleFrame" /\ ret = 0 /\ stage = "FrameBuilt" -> "Scheduled"
      [] op = "startPlayback" /\ ret = 0 /\ stage = "Scheduled" -> "Playing"
      [] OTHER -> stage

\* ------------------------------------------------------------------ Init
Init ==
    /\ session = "live"
    /\ m_device = FALSE
    /\ m_output = FALSE
    /\ m_frame = NoFrame
    /\ m_width = 1920
    /\ m_height = 1080
    /\ m_outputEnabled = FALSE
    /\ m_pixelFormat = bmdFormat12BitRGBLE
    /\ m_formatsCached = FALSE
    /\ m_supportedFormats = <<>>
    /\ m_hdrMetadata = DefaultHDRMetadata
    /\ m_pendingFrameData = <<>>
    /\ frames = <<>>
    /\ devEnabled = FALSE
    /\ lastOp = "construct"
    /\ lastRet = 0
    /\ lastArgs = <<>>
    /\ calls = <<>>
    /\ stage = "Idle"
    /\ dataSetOk = FALSE
    /\ lastCreateOk = FALSE
    /\ staleFrame = FALSE

\* what every method call records
Observe(op, args, ret, trace) ==
    /\ lastOp' = op
    /\ lastArgs' = args
    /\ lastRet' = ret
    /\ calls' = trace
    /\ stage' = StageAfter(op, ret)
    /\ lastCreateOk' = IF op = "createFrame" THEN ret = 0 ELSE lastCreateOk

\* ------------------------------------------------- decklink_open_output_by_index
\* the device was found and its output interface obtained
OpenOutput ==
    /\ session = "live" /\ lastOp = "construct"
    /\ m_device' = TRUE
    /\ m_output' = TRUE
    /\ Observe("open", <<>>, 0, <<>>)
    /\ UNCHANGED <<session, m_frame, m_width, m_height, m_outputEnabled,
                   m_pixelFormat, m_formatsCached, m_supportedFormats,
                   m_hdrMetadata, m_pendingFrameData, deviceVars,
                   dataSetOk, staleFrame>>

\* ------------------------------------------------------------------ startOutput
\* m_outputEnabled is set without looking at EnableVideoOutput's result
startOutput_IgnoresEnableResult(enableOk) ==
    IF ~m_output THEN [ret |-> 0 - 1, calls |-> <<>>, enabled |-> m_outputEnabled]
    ELSE IF m_outputEnabled THEN [ret |-> 0, calls |-> <<>>, enabled |-> m_outputEnabled]
    ELSE [ret |-> IF enableOk THEN 0 ELSE 0 - 1,
          calls |-> <<Call("EnableVideoOutput", enableOk)>>,
          enabled |-> TRUE]

startOutput(enableOk) ==
    IF ~m_output THEN [ret |-> 0 - 1, calls |-> <<>>, enabled |-> m_outputEnabled]
    ELSE IF m_outputEnabled THEN [ret |-> 0, calls |-> <<>>, enabled |-> m_outputEnabled]
    ELSE IF ~enableOk
         THEN [ret |-> 0 - 1, calls |-> <<Call("EnableVideoOutput", FALSE)>>,
               enabled |-> m_outputEnabled]
         ELSE [ret |-> 0, calls |-> <<Call("EnableVideoOutput", TRUE)>>,
               enabled |-> TRUE]

StartOutput ==
    /\ session = "live"
    /\ \E enableOk \in BOOLEAN :
         LET r == startOutput(enableOk) IN
         /\ m_outputEnabled' = r.enabled
         /\ devEnabled' = (devEnabled \/ \E i \in 1..Len(r.calls) : r.calls[i].ok)
         /\ Observe("startOutput", <<>>, r.ret, r.calls)
    /\ UNCHANGED <<session, m_device, m_output, m_frame, m_width, m_height,
                   m_pixelFormat, m_formatsCached, m_supportedFormats,
                   m_hdrMetadata, m_pendingFrameData, frames, dataSetOk,
                   staleFrame>>

\* ------------------------------------------------------------------ stopOutput
stopOutput ==
    IF ~m_outputEnabled THEN [ret |-> 0, calls |-> <<>>, enabled |-> m_outputEnabled]
    ELSE [ret |-> 0,
          calls |-> <<Call("StopScheduledPlayback", TRUE),
                      Call("DisableVideoOutput", TRUE)>>,
          enabled |-> FALSE]

\* the device's side of the calls a stop makes
DeviceAfterStop(trace) ==
    devEnabled' = IF trace = <<>> THEN devEnabled ELSE FALSE

StopOutput ==
    /\ session = "live"
    /\ LET r == stopOutput IN
         /\ m_outputEnabled' = r.enabled
         /\ DeviceAfterStop(r.calls)
         /\ staleFrame' = IF m_outputEnabled /\ m_frame # NoFrame /\ lastCreateOk
                         THEN TRUE ELSE staleFrame
         /\ Observe("stopOutput", <<>>, r.ret, r.calls)
    /\ UNCHANGED <<session, m_device, m_output, m_frame, m_width, m_height,
                   m_pixelFormat, m_formatsCached, m_supportedFormats,
                   m_hdrMetadata, m_pendingFrameData, frames, dataSetOk>>

\* ------------------------------------------------------------------ setFrameData
\* data + dataSize may run past the caller's buffer: the samples read there are
\* whatever memory holds (oob.fill), or the read faults (oob.crash)
SamplesRead(buf, n, fill) == [i \in 1..n |-> IF i <= Len(buf) THEN buf[i] ELSE fill]

\* the dimensions are stored before they are validated
setFrameData_DimsFirst(data, width, height, oob) ==
    IF data.null
    THEN [ret |-> 0 - 1, width |-> m_width, height |-> m_height,
          pending |-> m_pendingFrameData, crashed |-> FALSE]
    ELSE IF width <= 0 \/ height <= 0
    THEN [ret |-> 0 - 1, width |-> width, height |-> height,
          pending |-> m_pendingFrameData, crashed |-> FALSE]
    ELSE LET dataSize == width * height * 3 IN
         [ret |-> 0, width |-> width, height |-> height,
          pending |-> SamplesRead(data.buf, dataSize, oob.fill),
          crashed |-> (dataSize > Len(data.buf) /\ oob.crash)]

\* one sample per pixel is stored instead of three
setFrameData_NoChannels(data, width, height, oob) ==
    IF data.null \/ width <= 0 \/ height <= 0
    THEN [ret |-> 0 - 1, width |-> m_width, height |-> m_height,
          pending |-> m_pendingFrameData, crashed |-> FALSE]
    ELSE LET dataSize == width * height IN
         [ret |-> 0, width |-> width, height |-> height,
          pending |-> SamplesRead(data.buf, dataSize, oob.fill),
          crashed |-> (dataSize > Len(data.buf) /\ oob.crash)]

setFrameData(data, width, height, oob) ==
    IF data.null \/ width <= 0 \/ height <= 0
    THEN [ret |-> 0 - 1, width |-> m_width, height |-> m_height,
          pending |-> m_pendingFrameData, crashed |-> FALSE]
    ELSE LET dataSize == width * height * 3 IN
         [ret |-> 0, width |-> width, height |-> height,
          pending |-> SamplesRead(data.buf, dataSize, oob.fill),
          crashed |-> (dataSize > Len(data.buf) /\ oob.crash)]

\* the outcomes of the read: one when it stays inside the buffer
ReadsOf(data, width, height) ==
    IF data.null \/ width <= 0 \/ height <= 0 \/ width * height * 3 <= Len(data.buf)
    THEN {[crash |-> FALSE, fill |-> 65535]}
    ELSE OutOfBoundsReads

SetFrameDataFrom(buffers, dims) ==
    /\ session = "live"
    /\ \E data \in buffers, width \in dims, height \in dims :
       \E oob \in ReadsOf(data, width, height) :
         LET r == setFrameData(data, width, height, oob) IN
         IF r.crashed
         THEN /\ session' = "crashed"
              /\ UNCHANGED <<m_width, m_height, m_pendingFrameData, lastOp,
                             lastRet, lastArgs, calls, stage, dataSetOk,
                             lastCreateOk>>
         ELSE /\ m_width' = r.width
              /\ m_height' = r.height
              /\ m_pendingFrameData' = r.pending
              /\ dataSetOk' = (dataSetOk \/ r.ret = 0)
              /\ Observe("setFrameData", <<data, width, height>>, r.ret, <<>>)
              /\ UNCHANGED session
    /\ UNCHANGED <<m_device, m_output, m_frame, m_outputEnabled, m_pixelFormat,
                   m_formatsCached, m_supportedFormats, m_hdrMetadata,
                   deviceVars, staleFrame>>

SetFrameData == SetFrameDataFrom(PixelBuffers, PixelDims)

SetFrameDataAnyLength == SetFrameDataFrom(CallerBuffers, Dims)

\* ------------------------------------------------------------------ createFrame
\* what the device and the packer answer during one createFrame:
\*   failAt     the step that fails ("none": every step succeeds)
\*   keepsOut   a failed CreateVideoFrame leaves *outFrame as it was
\*   rowBytes   the stride RowBytesForPixelFormat returns
\*   packErr    the packer's error code when it is the step that fails
\*   metaOk     the frame gives out its metadata-extensions interface
\*   failSet    the metadata keys whose SetInt / SetFloat call fails
Answer(f, k, rb, e, m) ==
    [failAt |-> f, keepsOut |-> k, rowBytes |-> rb, packErr |-> e, metaOk |-> m,
     failSet |-> {}]

RowStrides == {16, 32}

OneStride == {16}

PackErrors == {0 - 1, 0 - 8}

\* every step failing in turn, for the strides given
DeviceAnswers(strides) ==
    {Answer("RowBytesForPixelFormat", FALSE, 16, 0, TRUE)} \cup
    {Answer("CreateVideoFrame", k, rb, 0, m) : k \in BOOLEAN, rb \in strides,
                                               m \in BOOLEAN} \cup
    {Answer(f, FALSE, rb, 0, TRUE) :
        f \in {"QueryInterface", "StartAccess", "GetBytes"}, rb \in strides} \cup
    {Answer("pack_pixel_format", FALSE, rb, e, TRUE) : rb \in strides,
                                                       e \in PackErrors} \cup
    {Answer("none", FALSE, rb, 0, m) : rb \in strides, m \in BOOLEAN}

\* a device on which only the stride query can fail
StrideAnswers ==
    {Answer("RowBytesForPixelFormat", FALSE, 16, 0, TRUE),
     Answer("none", FALSE, 16, 0, TRUE)}

\* the device has memory for MaxFrames frames: past that, CreateVideoFrame fails
AnswersNow(answers) ==
    {d \in answers :
        Len(frames) < MaxFrames
        \/ d.failAt \in {"RowBytesForPixelFormat", "CreateVideoFrame"}}

\* IDeckLinkOutput::CreateVideoFrame, success: a fresh frame object (its geometry
\* is the call's arguments, kept in the trace)
\* a metadata key of a frame holds no value, or the one value <<v>>
NoValue == <<>>

NewFrame ==
    [content |-> "unwritten", access |-> "none", hdrFlag |-> FALSE,
     rowBytes |-> 0, EOTF |-> NoValue, colorspace |-> NoValue,
     fields |-> [k \in {MasteringKeys[i] : i \in 1..Len(MasteringKeys)} |-> NoValue],
     released |-> FALSE]

\* pack_pixel_format: what the frame buffer holds afterwards
pack_pixel_format(err) == IF err # 0 THEN "partial" ELSE "packed"

\* the SetFloat calls stop at the first one that fails
SetMasteringFields_StopAtFailure(failSet) ==
    LET n == Len(MasteringKeys)
        bad == {i \in 1..n : MasteringKeys[i] \in failSet}
        last == IF bad = {} THEN n ELSE CHOOSE i \in bad : \A j \in bad : i <= j
    IN [i \in 1..last |->
           CallWith("SetFloat", MasteringKeys[i] \notin failSet,
                    <<MasteringKeys[i],
                      MasteringValue(m_hdrMetadata, MasteringKeys[i])>>)]

\* the SetFloat calls of the PQ branch, one per mastering key, none skipped
SetMasteringFields(failSet) ==
    [i \in 1..Len(MasteringKeys) |->
        CallWith("SetFloat", MasteringKeys[i] \notin failSet,
                 <<MasteringKeys[i], MasteringValue(m_hdrMetadata, MasteringKeys[i])>>)]

\* if (m_hdrMetadata.EOTF == 2): only PQ carries the mastering-display data
CarriesMasteringData_AnyHDR(md) == md.EOTF >= 2

CarriesMasteringData(md) == md.EOTF = 2

\* applyHDRMetadata on frame record fr: the frame afterwards and the calls made.
\* A Set call that fails leaves the frame's value for that key as it was.
applyHDRMetadata(fr, metaOk, failSet) ==
    IF ~metaOk
    THEN [frame |-> fr,
          calls |-> <<CallWith("QueryMetadataExtensions", FALSE, <<>>)>>]
    ELSE
    LET fr1 == IF "Colorspace" \in failSet THEN fr
               ELSE [fr EXCEPT !.colorspace = <<bmdColorspaceRec2020>>]
        fr2 == IF "HDRElectroOpticalTransferFunc" \in failSet THEN fr1
               ELSE [fr1 EXCEPT !.EOTF = <<m_hdrMetadata.EOTF>>]
        head == <<CallWith("QueryMetadataExtensions", TRUE, <<>>),
                  CallWith("SetInt", "Colorspace" \notin failSet,
                           <<"Colorspace", bmdColorspaceRec2020>>),
                  CallWith("SetInt", "HDRElectroOpticalTransferFunc" \notin failSet,
                           <<"HDRElectroOpticalTransferFunc", m_hdrMetadata.EOTF>>)>>
        tail == <<CallWith("Release", TRUE, <<"MetadataExtensions">>)>>
    IN
    IF CarriesMasteringData(m_hdrMetadata)
    THEN [frame |->
              [fr2 EXCEPT !.hdrFlag = TRUE,
                          !.fields = [k \in DOMAIN fr2.fields |->
                                         IF k \in failSet THEN fr2.fields[k]
                                         ELSE <<MasteringValue(m_hdrMetadata, k)>>]],
          calls |-> head
                    \o <<CallWith("SetFlags", TRUE, <<"ContainsHDRMetadata", TRUE>>)>>
                    \o SetMasteringFields(failSet) \o tail]
    ELSE [frame |-> [fr2 EXCEPT !.hdrFlag = FALSE],
          calls |-> head
                    \o <<CallWith("SetFlags", TRUE, <<"ContainsHDRMetadata", FALSE>>)>>
                    \o tail]

CreateFrameResult(ret, trace, frame, fs) ==
    [ret |-> ret, calls |-> trace, frame |-> frame, frames |-> fs]

\* if (!m_output || !m_outputEnabled) return -1;
CreateFrameRefused_NoEnabledCheck == ~m_output

CreateFrameRefused == ~m_output \/ ~m_outputEnabled

\* if (m_pendingFrameData.empty()) return -2;
NoPendingData_ChecksDims == m_width <= 0 \/ m_height <= 0

NoPendingData == m_pendingFrameData = <<>>

\* GetBytes failed: EndAccess, Release, return -7 (trace so far, frame, frames)
GetBytesFailed_NoEndAccess(trace, f, fs) ==
    CreateFrameResult(0 - 7, Append(trace, Call("Release", TRUE)), f, fs)

GetBytesFailed(trace, f, fs) ==
    CreateFrameResult(0 - 7,
        trace \o <<Call("EndAccess", TRUE), Call("Release", TRUE)>>,
        f, [fs EXCEPT ![f].access = "none"])

\* the packer is given the stride of tightly packed 16-bit RGB rows
PackCall_TightStride(err, rowBytes) ==
    CallWith("pack_pixel_format", err = 0,
             <<m_pixelFormat, m_pendingFrameData, m_width, m_height, m_width * 6>>)

\* pack_pixel_format(frameData, m_pixelFormat, srcData, m_width, m_height, rowBytes)
PackCall(err, rowBytes) ==
    CallWith("pack_pixel_format", err = 0,
             <<m_pixelFormat, m_pendingFrameData, m_width, m_height, rowBytes>>)

createFrame(d) ==
    IF CreateFrameRefused
    THEN CreateFrameResult(0 - 1, <<>>, m_frame, frames)
    ELSE IF NoPendingData
    THEN CreateFrameResult(0 - 2, <<>>, m_frame, frames)
    ELSE
    LET rowOk == d.failAt # "RowBytesForPixelFormat"
        t1 == <<CallWith("RowBytesForPixelFormat", rowOk,
                         <<m_pixelFormat, m_width, IF rowOk THEN d.rowBytes ELSE 0>>)>>
    IN
    IF ~rowOk THEN CreateFrameResult(0 - 3, t1, m_frame, frames)
    ELSE
    LET createOk == d.failAt # "CreateVideoFrame"
        t2 == Append(t1, CallWith("CreateVideoFrame", createOk,
                                  <<m_width, m_height, d.rowBytes, m_pixelFormat>>))
        fs2 == IF createOk
               THEN Append(frames, [NewFrame EXCEPT !.rowBytes = d.rowBytes])
               ELSE frames
        f == IF createOk THEN Len(frames) + 1
             ELSE IF d.keepsOut THEN m_frame ELSE NoFrame
    IN
    IF f = NoFrame THEN CreateFrameResult(0 - 4, t2, f, fs2)
    ELSE
    LET qiOk == d.failAt # "QueryInterface"
        t3 == Append(t2, Call("QueryInterface", qiOk))
    IN
    IF ~qiOk THEN CreateFrameResult(0 - 5, t3, f, fs2)
    ELSE
    LET startOk == d.failAt # "StartAccess"
        t4 == Append(t3, Call("StartAccess", startOk))
    IN
    IF ~startOk
    THEN CreateFrameResult(0 - 6, Append(t4, Call("Release", TRUE)), f, fs2)
    ELSE
    LET fs4 == [fs2 EXCEPT ![f].access = "write"]
        getOk == d.failAt # "GetBytes"
        t5 == Append(t4, Call("GetBytes", getOk))
    IN
    IF ~getOk THEN GetBytesFailed(t5, f, fs4)
    ELSE
    LET err == IF d.failAt = "pack_pixel_format" THEN d.packErr ELSE 0
        t6 == t5 \o <<PackCall(err, d.rowBytes),
                      Call("EndAccess", TRUE), Call("Release", TRUE)>>
        fs6 == [fs4 EXCEPT ![f].content = pack_pixel_format(err),
                           ![f].access = "none"]
    IN
    IF err # 0 THEN CreateFrameResult(err, t6, f, fs6)
    ELSE IF m_hdrMetadata.EOTF >= 0
    THEN LET a == applyHDRMetadata(fs6[f], d.metaOk, d.failSet) IN
         CreateFrameResult(0,
             Append(t6, CallWith("applyHDRMetadata", d.metaOk, <<f, m_hdrMetadata>>))
             \o a.calls,
             f, [fs6 EXCEPT ![f] = a.frame])
    ELSE CreateFrameResult(0, t6, f, fs6)

\* the source buffer is emptied once a frame has been packed from it
PendingAfterCreateFrame_Consumed(ret) == IF ret = 0 THEN <<>> ELSE m_pendingFrameData

\* createFrame only reads the buffer: srcData = m_pendingFrameData.data()
PendingAfterCreateFrame(ret) == m_pendingFrameData

CreateFrameWith(answers) ==
    /\ session = "live"
    /\ \E d \in AnswersNow(answers) :
         LET r == createFrame(d) IN
         /\ m_frame' = r.frame
         /\ frames' = r.frames
         /\ m_pendingFrameData' = PendingAfterCreateFrame(r.ret)
         /\ staleFrame' = IF Len(r.frames) > Len(frames) \/ r.frame = NoFrame
                             \/ r.ret = 0
                          THEN FALSE ELSE staleFrame
         /\ Observe("createFrame", <<>>, r.ret, r.calls)
    /\ UNCHANGED <<session, m_device, m_output, m_width, m_height,
                   m_outputEnabled, m_pixelFormat, m_formatsCached,
                   m_supportedFormats, m_hdrMetadata, devEnabled, dataSetOk>>

\* ------------------------------------------------------------------ scheduleFrame
\* the device refuses a frame while its video output is not enabled
scheduleFrame(deviceOk) ==
    IF ~m_output \/ m_frame = NoFrame THEN [ret |-> 0 - 1, calls |-> <<>>]
    ELSE LET ok == deviceOk /\ devEnabled IN
         [ret |-> IF ok THEN 0 ELSE 0 - 1,
          calls |-> <<CallWith("ScheduleVideoFrame", ok, <<m_frame>>)>>]

ScheduleFrame ==
    /\ session = "live"
    /\ \E deviceOk \in BOOLEAN :
         LET r == scheduleFrame(deviceOk) IN
         Observe("scheduleFrame", <<>>, r.ret, r.calls)
    /\ UNCHANGED <<session, sessionVars, deviceVars, dataSetOk, staleFrame>>

\* ------------------------------------------------------------------ startPlayback
\* the device refuses to start playback while its video output is not enabled
startPlayback(deviceOk) ==
    IF ~m_output THEN [ret |-> 0 - 1, calls |-> <<>>]
    ELSE LET ok == deviceOk /\ devEnabled IN
         [ret |-> IF ok THEN 0 ELSE 0 - 1,
          calls |-> <<Call("StartScheduledPlayback", ok)>>]

StartPlayback ==
    /\ session = "live"
    /\ \E deviceOk \in BOOLEAN :
         LET r == startPlayback(deviceOk) IN
         Observe("startPlayback", <<>>, r.ret, r.calls)
    /\ UNCHANGED <<session, sessionVars, deviceVars, dataSetOk, staleFrame>>

CreateFrame == CreateFrameWith(DeviceAnswers(OneStride))

CreateFrameStrideOnly == CreateFrameWith(StrideAnswers)

\* ------------------------------------------------------- cacheSupportedFormats
\* the candidates, in the order they are probed
ProbeList == <<bmdFormat8BitYUV, bmdFormat10BitYUV, bmdFormat10BitYUVA,
               bmdFormat8BitARGB, bmdFormat8BitBGRA, bmdFormat10BitRGB,
               bmdFormat12BitRGB, bmdFormat12BitRGBLE, bmdFormat10BitRGBXLE,
               bmdFormat10BitRGBX>>

\* what DoesSupportVideoMode answers: the formats it reports supported, and the
\* formats for which the call itself fails
ProbeAnswers ==
    {[supported |-> {bmdFormat8BitYUV, bmdFormat8BitARGB, bmdFormat12BitRGBLE},
      failing |-> {bmdFormat8BitYUV}],
     [supported |-> {bmdFormat10BitYUV, bmdFormat10BitRGB}, failing |-> {}],
     [supported |-> {ProbeList[i] : i \in 1..Len(ProbeList)},
      failing |-> {bmdFormat10BitYUVA, bmdFormat10BitRGBX}]}

\* iteration order of a std::set<BMDPixelFormat>: ascending tag value
RECURSIVE Ascending(_)
Ascending(S) ==
    IF S = {} THEN <<>>
    ELSE LET least == CHOOSE x \in S : \A y \in S : x <= y
         IN <<least>> \o Ascending(S \ {least})

\* the probe calls of one build: the tag asked about and the supported flag
\* the device reports (read only when the call succeeds)
ProbeCalls(probe) ==
    [i \in 1..Len(ProbeList) |->
        CallWith("DoesSupportVideoMode", ProbeList[i] \notin probe.failing,
                 <<ProbeList[i], ProbeList[i] \in probe.supported>>)]

\* the build runs again although the catalog is cached
cacheSupportedFormats_AlwaysProbes(probe) ==
    IF ~m_output
    THEN [calls |-> <<>>, cached |-> m_formatsCached, formats |-> m_supportedFormats]
    ELSE [calls |-> ProbeCalls(probe), cached |-> TRUE,
          formats |-> Ascending(probe.supported \ probe.failing)]

\* the supported flag is taken without looking at the call's result
cacheSupportedFormats_IgnoresResult(probe) ==
    IF ~m_output \/ m_formatsCached
    THEN [calls |-> <<>>, cached |-> m_formatsCached, formats |-> m_supportedFormats]
    ELSE [calls |-> ProbeCalls(probe), cached |-> TRUE,
          formats |-> Ascending(probe.supported)]

cacheSupportedFormats(probe) ==
    IF ~m_output \/ m_formatsCached
    THEN [calls |-> <<>>, cached |-> m_formatsCached, formats |-> m_supportedFormats]
    ELSE LET uniqueFormats ==
                 {ProbeList[i] : i \in {j \in 1..Len(ProbeList) :
                     ProbeList[j] \in probe.supported \ probe.failing}}
         IN [calls |-> ProbeCalls(probe),
             cached |-> TRUE,
             formats |-> Ascending(uniqueFormats)]

\* a call of cacheSupportedFormats itself
CacheSupportedFormats ==
    /\ session = "live"
    /\ \E probe \in ProbeAnswers :
         LET c == cacheSupportedFormats(probe) IN
         /\ m_formatsCached' = c.cached
         /\ m_supportedFormats' = c.formats
         /\ Observe("cacheSupportedFormats", <<>>, 0, c.calls)
    /\ UNCHANGED <<session, m_device, m_output, m_frame, m_width, m_height,
                   m_outputEnabled, m_pixelFormat, m_hdrMetadata,
                   m_pendingFrameData, deviceVars, dataSetOk, staleFrame>>

\* decklink_get_supported_pixel_format_count
GetSupportedPixelFormatCount ==
    /\ session = "live"
    /\ \E probe \in ProbeAnswers :
         LET c == cacheSupportedFormats(probe) IN
         /\ m_formatsCached' = c.cached
         /\ m_supportedFormats' = c.formats
         /\ Observe("getSupportedPixelFormatCount", <<>>, Len(c.formats), c.calls)
    /\ UNCHANGED <<session, m_device, m_output, m_frame, m_width, m_height,
                   m_outputEnabled, m_pixelFormat, m_hdrMetadata,
                   m_pendingFrameData, deviceVars, dataSetOk, staleFrame>>

\* ------------------------------------ decklink_get_supported_pixel_format_name
\* the family label the switch gives each tag
FormatLabel(format) ==
    CASE format = bmdFormat8BitYUV -> "8Bit YUV"
      [] format = bmdFormat10BitYUV -> "10Bit YUV"
      [] format = bmdFormat10BitYUVA -> "10Bit YUVA"
      [] format = bmdFormat8BitARGB -> "8Bit ARGB"
      [] format = bmdFormat8BitBGRA -> "8Bit BGRA"
      [] format = bmdFormat10BitRGB -> "10Bit RGB"
      [] format = bmdFormat12BitRGB -> "12Bit RGB"
      [] format = bmdFormat12BitRGBLE -> "12Bit RGB LE"
      [] format = bmdFormat10BitRGBXLE -> "10Bit RGBX LE"
      [] format = bmdFormat10BitRGBX -> "10Bit RGBX"
      [] OTHER -> "Unknown"

decklink_get_supported_pixel_format_name(index, probe) ==
    LET c == cacheSupportedFormats(probe) IN
    IF index < 0 \/ index >= Len(c.formats)
    THEN [ret |-> 0 - 1, calls |-> c.calls, cached |-> c.cached,
          formats |-> c.formats, name |-> ""]
    ELSE [ret |-> 0, calls |-> c.calls, cached |-> c.cached,
          formats |-> c.formats, name |-> FormatLabel(c.formats[index + 1])]

GetSupportedPixelFormatName ==
    /\ session = "live"
    /\ \E index \in (0 - 1)..2, probe \in ProbeAnswers :
         LET r == decklink_get_supported_pixel_format_name(index, probe) IN
         /\ m_formatsCached' = r.cached
         /\ m_supportedFormats' = r.formats
         /\ Observe("getSupportedPixelFormatName", <<index>>, r.ret, r.calls)
    /\ UNCHANGED <<session, m_device, m_output, m_frame, m_width, m_height,
                   m_outputEnabled, m_pixelFormat, m_hdrMetadata,
                   m_pendingFrameData, deviceVars, dataSetOk, staleFrame>>

\* ------------------------------------------------------------------ getPixelFormat
RECURSIVE FirstIndexFrom(_, _, _)
\* the loop of getPixelFormat from position i (0-based) on
FirstIndexFrom(formats, format, i) ==
    IF i >= Len(formats) THEN 0 - 1
    ELSE IF formats[i + 1] = format THEN i
    ELSE FirstIndexFrom(formats, format, i + 1)

getPixelFormat ==
    IF ~m_formatsCached THEN 0 - 1
    ELSE FirstIndexFrom(m_supportedFormats, m_pixelFormat, 0)

GetPixelFormat ==
    /\ session = "live"
    /\ Observe("getPixelFormat", <<>>, getPixelFormat, <<>>)
    /\ UNCHANGED <<session, sessionVars, deviceVars, dataSetOk, staleFrame>>

\* ------------------------------------------------------------------ setPixelFormat
\* the index is taken into the probe list instead of the catalog
setPixelFormat_FromProbeList(pixelFormatIndex, probe) ==
    IF ~m_output
    THEN [ret |-> 0 - 1, calls |-> <<>>, cached |-> m_formatsCached,
          formats |-> m_supportedFormats, format |-> m_pixelFormat]
    ELSE LET c == cacheSupportedFormats(probe) IN
         IF pixelFormatIndex < 0 \/ pixelFormatIndex >= Len(c.formats)
         THEN [ret |-> 0 - 1, calls |-> c.calls, cached |-> c.cached,
               formats |-> c.formats, format |-> m_pixelFormat]
         ELSE [ret |-> 0, calls |-> c.calls, cached |-> c.cached,
               formats |-> c.formats, format |-> ProbeList[pixelFormatIndex + 1]]

setPixelFormat(pixelFormatIndex, probe) ==
    IF ~m_output
    THEN [ret |-> 0 - 1, calls |-> <<>>, cached |-> m_formatsCached,
          formats |-> m_supportedFormats, format |-> m_pixelFormat]
    ELSE LET c == cacheSupportedFormats(probe) IN
         IF pixelFormatIndex < 0 \/ pixelFormatIndex >= Len(c.formats)
         THEN [ret |-> 0 - 1, calls |-> c.calls, cached |-> c.cached,
               formats |-> c.formats, format |-> m_pixelFormat]
         ELSE [ret |-> 0, calls |-> c.calls, cached |-> c.cached,
               formats |-> c.formats, format |-> c.formats[pixelFormatIndex + 1]]

FormatIndexes == (0 - 1)..2

SetPixelFormatWith(indexes, probes) ==
    /\ session = "live"
    /\ \E pixelFormatIndex \in indexes, probe \in probes :
         LET r == setPixelFormat(pixelFormatIndex, probe) IN
         /\ m_formatsCached' = r.cached
         /\ m_supportedFormats' = r.formats
         /\ m_pixelFormat' = r.format
         /\ Observe("setPixelFormat", <<pixelFormatIndex>>, r.ret, r.calls)
    /\ UNCHANGED <<session, m_device, m_output, m_frame, m_width, m_height,
                   m_outputEnabled, m_hdrMetadata, m_pendingFrameData,
                   deviceVars, dataSetOk, staleFrame>>

SetPixelFormat == SetPixelFormatWith(FormatIndexes, ProbeAnswers)

\* one device, and the indexes around its two formats
SetPixelFormatOneDevice ==
    SetPixelFormatWith((0 - 1)..1,
        {[supported |-> {bmdFormat10BitYUV, bmdFormat10BitRGB}, failing |-> {}]})

\* ------------------------------------------------------------------ setHDRMetadata
\* the record is range-checked: an EOTF outside 0..7 is refused
setHDRMetadata_ValidatesEOTF(metadata) ==
    IF metadata.EOTF < 0 \/ metadata.EOTF > 7
    THEN [ret |-> 0 - 1, metadata |-> m_hdrMetadata]
    ELSE [ret |-> 0, metadata |-> metadata]

setHDRMetadata(metadata) == [ret |-> 0, metadata |-> metadata]

\* decklink_set_hdr_metadata: a null record pointer is refused, any other is
\* dereferenced and passed on
decklink_set_hdr_metadata(metadata) ==
    IF metadata.null THEN [ret |-> 0 - 1, metadata |-> m_hdrMetadata]
    ELSE setHDRMetadata(metadata.rec)

\* the pointers a caller passes: null, or the address of a record
HDRPointers ==
    {[null |-> TRUE, rec |-> DefaultHDRMetadata]}
    \cup {[null |-> FALSE, rec |-> r] : r \in HDRRecords}

SetHDRMetadata ==
    /\ session = "live"
    /\ \E metadata \in HDRPointers :
         LET r == decklink_set_hdr_metadata(metadata) IN
         /\ m_hdrMetadata' = r.metadata
         /\ Observe("setHDRMetadata", <<metadata>>, r.ret, <<>>)
    /\ UNCHANGED <<session, m_device, m_output, m_frame, m_width, m_height,
                   m_outputEnabled, m_pixelFormat, m_formatsCached,
                   m_supportedFormats, m_pendingFrameData, deviceVars,
                   dataSetOk, staleFrame>>

\* ------------------------------------------- ~DeckLinkSignalGen (decklink_close)
Close ==
    /\ session = "live"
    /\ LET r == stopOutput IN
         /\ session' = "closed"
         /\ m_outputEnabled' = r.enabled
         /\ DeviceAfterStop(r.calls)
         /\ frames' = IF m_frame # NoFrame
                      THEN [frames EXCEPT ![m_frame].released = TRUE]
                      ELSE frames
         /\ m_frame' = NoFrame
         /\ m_output' = FALSE
         /\ m_device' = FALSE
         /\ m_formatsCached' = FALSE
         /\ m_supportedFormats' = <<>>
         /\ Observe("close", <<>>, 0,
                    r.calls
                    \o (IF m_frame # NoFrame
                        THEN <<CallWith("Release", TRUE, <<"frame", m_frame>>)>>
                        ELSE <<>>)
                    \o (IF m_output THEN <<CallWith("Release", TRUE, <<"output">>)>>
                        ELSE <<>>)
                    \o (IF m_device THEN <<CallWith("Release", TRUE, <<"device">>)>>
                        ELSE <<>>))
    /\ UNCHANGED <<m_width, m_height, m_pixelFormat, m_hdrMetadata,
                   m_pendingFrameData, dataSetOk, staleFrame>>

\* ------------------------------------------------------------------ specifications
\* the output lifecycle and frame creation, every device call failing in turn
Next ==
    \/ OpenOutput
    \/ StartOutput
    \/ StopOutput
    \/ SetFrameData
    \/ CreateFrame
    \/ ScheduleFrame
    \/ StartPlayback
    \/ Close

Spec == Init /\ [][Next]_vars

\* the same session fed buffers of every length and dimensions up to MaxDim,
\* on a device where only the stride query can fail
NextAnyLength ==
    \/ OpenOutput
    \/ StartOutput
    \/ StopOutput
    \/ SetFrameDataAnyLength
    \/ CreateFrameStrideOnly
    \/ SetPixelFormatOneDevice

SpecAnyLength == Init /\ [][NextAnyLength]_vars

\* every method of the session
NextAll ==
    \/ Next
    \/ SetPixelFormat
    \/ GetSupportedPixelFormatCount
    \/ SetHDRMetadata

SpecAll == Init /\ [][NextAll]_vars

\* ------------------------------------------------- the HDR metadata of frames
\* the sets of metadata keys whose Set call the device refuses
FailSets ==
    {{}, {"HDRElectroOpticalTransferFunc"}, {"HDRDisplayPrimariesRedX"},
     {"Colorspace", "HDRMaximumFrameAverageLightLevel"}, MetadataKeys}

\* a device on which the metadata calls fail in turn, next to the allocation
\* and the packer
MetadataAnswers ==
    {Answer("CreateVideoFrame", k, 16, 0, TRUE) : k \in BOOLEAN}
    \cup {Answer("pack_pixel_format", FALSE, 16, 0 - 8, TRUE),
          Answer("none", FALSE, 16, 0, FALSE)}
    \cup {[Answer("none", FALSE, 16, 0, TRUE) EXCEPT !.failSet = fs] : fs \in FailSets}

CreateFrameMetadata == CreateFrameWith(MetadataAnswers)

\* one valid 1x1 frame
SetFrameDataOnePixel == SetFrameDataFrom({[null |-> FALSE, buf |-> Ramp(3, 0)]}, {1})

NextHDR ==
    \/ OpenOutput
    \/ StartOutput
    \/ SetFrameDataOnePixel
    \/ SetHDRMetadata
    \/ CreateFrameMetadata
    \/ ScheduleFrame

SpecHDR == Init /\ [][NextHDR]_vars

\* ------------------------------------------------------------ the row stride
\* a device whose stride answer changes from call to call, and whose stride
\* query and allocation can fail
VaryingStrideAnswers ==
    {Answer("RowBytesForPixelFormat", FALSE, 16, 0, TRUE)}
    \cup {Answer("CreateVideoFrame", k, rb, 0, TRUE) : k \in BOOLEAN, rb \in RowStrides}
    \cup {Answer("none", FALSE, rb, 0, TRUE) : rb \in RowStrides}

CreateFrameVaryingStride == CreateFrameWith(VaryingStrideAnswers)

\* valid frames of one and of two pixels
SetFrameDataRows ==
    SetFrameDataFrom({[null |-> FALSE, buf |-> Ramp(6, 0)]}, {1, 2})

NextStride ==
    \/ OpenOutput
    \/ StartOutput
    \/ SetFrameDataRows
    \/ SetPixelFormatOneDevice
    \/ CreateFrameVaryingStride

SpecStride == Init /\ [][NextStride]_vars

\* ------------------------------------------------------------ the format catalog
\* the catalog queries and format selection, on a session that is also started,
\* fed a frame and stopped, against devices whose probe answers change
NextCatalog ==
    \/ OpenOutput
    \/ StartOutput
    \/ StopOutput
    \/ SetFrameDataOnePixel
    \/ CreateFrameStrideOnly
    \/ CacheSupportedFormats
    \/ GetSupportedPixelFormatCount
    \/ GetSupportedPixelFormatName
    \/ SetPixelFormat
    \/ GetPixelFormat
    \/ Close

SpecCatalog == Init /\ [][NextCatalog]_vars

\* ------------------------------------------------------------------ properties
\* the step just taken was a call of method op that returned
Ran(op) == lastOp' = op /\ session' = "live"

\* the names of the calls in a trace
Ops(trace) == {trace[i].op : i \in 1..Len(trace)}

Count(trace, op, ok) ==
    Cardinality({i \in 1..Len(trace) : trace[i].op = op /\ trace[i].ok = ok})

\* C1: createFrame on a session with no output attached, or whose output is not
\* enabled, returns -1, makes no device call, and leaves m_frame, the pending
\* buffer, the dimensions, the pixel format and the HDR record as they were,
\* whether or not frame data is pending.
C1_CreateFrameRefusedWithoutOutput ==
    [][(Ran("createFrame") /\ (~m_output \/ ~m_outputEnabled))
        => /\ lastRet' = 0 - 1
           /\ calls' = <<>>
           /\ UNCHANGED <<m_frame, m_pendingFrameData, m_width, m_height,
                          m_pixelFormat, m_hdrMetadata, frames>>]_vars

\* createFrame was refused with data pending, on an attached but disabled output
C1_Witness ==
    /\ lastOp = "createFrame" /\ lastRet = 0 - 1 /\ calls = <<>>
    /\ m_output /\ ~m_outputEnabled
    /\ m_pendingFrameData # <<>>

\* C2: createFrame on an enabled output, when no setFrameData has succeeded
\* since construction, returns -2 (not the -1 of "no output enabled"), makes no
\* stride, allocation or buffer-access call, and leaves m_frame as it was.
C2_CreateFrameWithoutData ==
    [][(Ran("createFrame") /\ m_output /\ m_outputEnabled /\ ~dataSetOk)
        => /\ lastRet' = 0 - 2
           /\ lastRet' # 0 - 1
           /\ Ops(calls') \cap {"RowBytesForPixelFormat", "CreateVideoFrame",
                                "QueryInterface", "StartAccess", "GetBytes"} = {}
           /\ UNCHANGED <<m_frame, frames>>]_vars

\* createFrame ran on an enabled output after only failed setFrameData calls
C2_Witness ==
    /\ lastOp = "createFrame" /\ lastRet = 0 - 2
    /\ m_outputEnabled /\ ~dataSetOk

\* a setFrameData call the validation rejects: null buffer, width or height <= 0
InvalidFrameArgs(args) == args[1].null \/ args[2] <= 0 \/ args[3] <= 0

\* C3: setFrameData with a null buffer, or width <= 0, or height <= 0 returns -1
\* and leaves m_width, m_height and the pending buffer as they were; and what
\* createFrame hands the packer is the stored buffer with the stored dimensions.
C3_InvalidFrameDataChangesNothing ==
    [][/\ (Ran("setFrameData") /\ InvalidFrameArgs(lastArgs'))
            => /\ lastRet' = 0 - 1
               /\ UNCHANGED <<m_width, m_height, m_pendingFrameData>>
       /\ Ran("createFrame")
            => \A i \in 1..Len(calls') :
                  calls'[i].op = "pack_pixel_format"
                  => /\ calls'[i].args[2] = m_pendingFrameData
                     /\ calls'[i].args[3] = m_width
                     /\ calls'[i].args[4] = m_height]_vars

\* an invalid call was rejected while a valid frame was stored
C3_Witness ==
    /\ lastOp = "setFrameData" /\ lastRet = 0 - 1
    /\ InvalidFrameArgs(lastArgs)
    /\ ~lastArgs[1].null
    /\ m_pendingFrameData = Ramp(3, 100) /\ m_width = 1 /\ m_height = 1

\* C4: setFrameData with a buffer whose length differs from width*height*3
\* fails with -1 and does not store the buffer.
C4_MismatchedLengthRejected ==
    [][(Ran("setFrameData") /\ ~InvalidFrameArgs(lastArgs')
        /\ Len(lastArgs'[1].buf) # lastArgs'[2] * lastArgs'[3] * 3)
        => /\ lastRet' = 0 - 1
           /\ UNCHANGED m_pendingFrameData]_vars

\* C5: in every state the pending buffer is empty or holds exactly
\* m_width * m_height * 3 samples.
C5_PendingLengthMatchesDimensions ==
    \/ m_pendingFrameData = <<>>
    \/ Len(m_pendingFrameData) = m_width * m_height * 3

\* a 1x2 frame is pending, a later setFrameData failed, and createFrame ran
C5_Witness ==
    /\ lastOp = "createFrame" /\ lastRet = 0
    /\ m_width = 1 /\ m_height = 2
    /\ Len(m_pendingFrameData) = 6
    /\ m_pixelFormat # bmdFormat12BitRGBLE

\* C6: stopOutput returns 0 and leaves the output disabled, and a frame built
\* before the stop is no longer usable: scheduleFrame does not succeed until
\* createFrame has succeeded again.
C6_StopCollapsesToIdle ==
    [][/\ Ran("stopOutput") => (lastRet' = 0 /\ ~m_outputEnabled')
       /\ (Ran("scheduleFrame") /\ lastRet' = 0) => ~staleFrame]_vars

\* C7: scheduleFrame calls the device's ScheduleVideoFrame only when the output
\* is enabled and the most recent createFrame returned 0.
C7_ScheduleOnlyBuiltFrame ==
    [][(Ran("scheduleFrame") /\ "ScheduleVideoFrame" \in Ops(calls'))
        => (m_outputEnabled /\ lastCreateOk)]_vars

\* C8: startPlayback calls the device's StartScheduledPlayback only after
\* startOutput, createFrame and scheduleFrame have succeeded in that order with
\* no stopOutput since.
C8_PlaybackOnlyWhenScheduled ==
    [][(Ran("startPlayback") /\ "StartScheduledPlayback" \in Ops(calls'))
        => stage \in {"Scheduled", "Playing"}]_vars

\* C9: createFrame never returns with a frame buffer in write access: every
\* successful StartAccess is followed by exactly one EndAccess, and the packer
\* runs only between the two.
C9_WriteAccessIsReleased ==
    /\ \A f \in 1..Len(frames) : frames[f].access = "none"
    /\ lastOp = "createFrame"
        => /\ Count(calls, "EndAccess", TRUE) = Count(calls, "StartAccess", TRUE)
           /\ Count(calls, "StartAccess", TRUE) <= 1
           /\ \A i \in 1..Len(calls) :
                 /\ calls[i].op = "StartAccess" /\ calls[i].ok
                      => \E j \in (i + 1)..Len(calls) : calls[j].op = "EndAccess"
                 /\ calls[i].op = "EndAccess"
                      => \E j \in 1..(i - 1) :
                            calls[j].op = "StartAccess" /\ calls[j].ok
                 /\ calls[i].op = "pack_pixel_format"
                      => /\ \E j \in 1..(i - 1) :
                               calls[j].op = "StartAccess" /\ calls[j].ok
                         /\ \E j \in (i + 1)..Len(calls) : calls[j].op = "EndAccess"
                         /\ \A j \in 1..(i - 1) : calls[j].op # "EndAccess"

\* GetBytes failed after StartAccess succeeded, and the access was ended
C9_Witness ==
    /\ lastOp = "createFrame" /\ lastRet = 0 - 7
    /\ Count(calls, "StartAccess", TRUE) = 1
    /\ Count(calls, "GetBytes", FALSE) = 1
    /\ Count(calls, "EndAccess", TRUE) = 1

HardwareCalls == {"RowBytesForPixelFormat", "CreateVideoFrame", "QueryInterface",
                  "StartAccess", "GetBytes"}

\* C10: whenever the stride query, the frame allocation or the buffer access
\* fails during createFrame, createFrame returns non-zero, runs neither the
\* packer nor the metadata step, and does not repeat the failed call.
C10_HardwareFailureAborts ==
    (lastOp = "createFrame"
     /\ \E i \in 1..Len(calls) : calls[i].op \in HardwareCalls /\ ~calls[i].ok)
    => /\ lastRet # 0
       /\ Ops(calls) \cap {"pack_pixel_format", "applyHDRMetadata"} = {}
       /\ \A i, j \in 1..Len(calls) :
             (calls[i].op \in HardwareCalls /\ calls[i].op = calls[j].op) => i = j

\* the cause of a failing startOutput, by the return statement it leaves through
StartOutputCause(enableOk) ==
    IF ~m_output THEN "no output attached" ELSE "hardware enable failed"

\* the cause of a failing createFrame under device answer d
CreateFrameCause(d) ==
    IF ~m_output THEN "no output attached"
    ELSE IF ~m_outputEnabled THEN "output not enabled"
    ELSE IF NoPendingData THEN "no pending data"
    ELSE CASE d.failAt = "RowBytesForPixelFormat" -> "stride failure"
           [] d.failAt = "CreateVideoFrame" -> "allocation failure"
           [] d.failAt \in {"QueryInterface", "StartAccess", "GetBytes"}
                -> "access failure"
           [] OTHER -> "unsupported format"

\* the cause of a failing setPixelFormat
SetPixelFormatCause == IF ~m_output THEN "no output attached" ELSE "index out of range"

Failure(op, cause, code) == [op |-> op, cause |-> cause, code |-> code]

\* every failure the three entry points can report in the current state
Failures ==
    {Failure("startOutput", StartOutputCause(e), startOutput(e).ret) :
        e \in {b \in BOOLEAN : startOutput(b).ret # 0}}
    \cup {Failure("createFrame", CreateFrameCause(d), createFrame(d).ret) :
        d \in {a \in DeviceAnswers(OneStride) : createFrame(a).ret # 0}}
    \cup {Failure("setPixelFormat", SetPixelFormatCause, setPixelFormat(i, p).ret) :
        i \in {j \in FormatIndexes :
                 \A q \in ProbeAnswers : setPixelFormat(j, q).ret # 0},
        p \in ProbeAnswers}

\* C11: every failure code is negative, and within one entry point two
\* different failure causes never yield the same code, in any state and across
\* any step of the session.
C11_FailureCodesDistinct ==
    [][\A x \in Failures \cup Failures' :
          /\ x.code < 0
          /\ \A y \in Failures \cup Failures' :
                (x.op = y.op /\ x.cause # y.cause) => x.code # y.code]_vars

\* the positions of the calls of op in a trace
At(trace, op) == {i \in 1..Len(trace) : trace[i].op = op}

\* C12: every createFrame that returns 0 has run the metadata attach step on
\* the frame it just created, with the session's current HDR record, whatever
\* EOTF value that record holds.
C12_AttachStepAlwaysRuns ==
    [][(Ran("createFrame") /\ lastRet' = 0)
        => /\ Len(frames') = Len(frames) + 1
           /\ m_frame' = Len(frames')
           /\ \E i \in At(calls', "applyHDRMetadata") :
                 calls'[i].args = <<m_frame', m_hdrMetadata>>]_vars

\* the attach step of the createFrame just run obtained the metadata interface
Attached(trace) ==
    \E i \in At(trace, "QueryMetadataExtensions") : trace[i].ok

\* C13: when the attach step runs with EOTF = 2 the frame gets the
\* contains-HDR-metadata flag and one SetFloat attempt for each of the twelve
\* mastering-display keys, with that key's member of the record; with any other
\* EOTF no mastering key is set and the flag is cleared; in both cases the EOTF
\* value itself is set on the frame.
C13_MasteringDataOnlyForPQ ==
    [][(Ran("createFrame") /\ Attached(calls'))
        => LET fr == frames'[m_frame']
               before == IF m_frame' <= Len(frames) THEN frames[m_frame']
                         ELSE NewFrame
           IN
           /\ \E i \in At(calls', "SetInt") :
                 /\ calls'[i].args
                      = <<"HDRElectroOpticalTransferFunc", m_hdrMetadata.EOTF>>
                 /\ calls'[i].ok => fr.EOTF = <<m_hdrMetadata.EOTF>>
           /\ m_hdrMetadata.EOTF = 2
                => /\ fr.hdrFlag
                   /\ Cardinality(At(calls', "SetFloat")) = 12
                   /\ \A k \in DOMAIN fr.fields :
                         \E i \in At(calls', "SetFloat") :
                            /\ calls'[i].args = <<k, MasteringValue(m_hdrMetadata, k)>>
                            /\ calls'[i].ok => fr.fields[k] = <<calls'[i].args[2]>>
           /\ m_hdrMetadata.EOTF # 2
                => /\ ~fr.hdrFlag
                   /\ At(calls', "SetFloat") = {}
                   /\ fr.fields = before.fields]_vars

\* an HLG frame (EOTF 3) was created after a PQ frame: flag clear, EOTF set,
\* no mastering value on it
C13_Witness ==
    /\ lastOp = "createFrame" /\ lastRet = 0 /\ Attached(calls)
    /\ m_hdrMetadata.EOTF = 3
    /\ m_frame = 2
    /\ frames[1].hdrFlag /\ frames[1].fields["HDRWhitePointX"] = <<3127>>
    /\ ~frames[2].hdrFlag /\ frames[2].EOTF = <<3>>
    /\ \A k \in DOMAIN frames[2].fields : frames[2].fields[k] = NoValue

\* C14: setHDRMetadata, given a record, returns 0, stores it as the whole record
\* whatever values it holds, and changes nothing else, no frame included; a
\* scheduleFrame after it hands the device the same frame with the metadata it
\* had; and the values an attach step writes are those of the record stored
\* when createFrame runs, written to no frame other than m_frame.
C14_SetHDRMetadataNotRetroactive ==
    [][/\ Ran("setHDRMetadata")
            => /\ ~lastArgs'[1].null
                    => (lastRet' = 0 /\ m_hdrMetadata' = lastArgs'[1].rec)
               /\ UNCHANGED <<frames, m_frame, m_device, m_output, m_width,
                              m_height, m_outputEnabled, m_pixelFormat,
                              m_formatsCached, m_supportedFormats,
                              m_pendingFrameData, devEnabled>>
       /\ Ran("scheduleFrame")
            => /\ UNCHANGED <<frames, m_frame, m_hdrMetadata>>
               /\ \A i \in At(calls', "ScheduleVideoFrame") :
                     calls'[i].args = <<m_frame>>
       /\ Ran("createFrame")
            => /\ \A f \in 1..Len(frames) : f # m_frame' => frames'[f] = frames[f]
               /\ \A i \in At(calls', "SetInt") :
                     calls'[i].args[1] = "HDRElectroOpticalTransferFunc"
                     => calls'[i].args[2] = m_hdrMetadata.EOTF
               /\ \A i \in At(calls', "SetFloat") :
                     calls'[i].args[2]
                       = MasteringValue(m_hdrMetadata, calls'[i].args[1])]_vars

\* a PQ frame with the preset was built, the record was then replaced, the old
\* frame was scheduled with the preset still on it, and the next createFrame
\* put the caller's values on the new frame
C14_Witness ==
    /\ lastOp = "createFrame" /\ lastRet = 0
    /\ m_hdrMetadata = CallerHDRMetadata(2)
    /\ m_frame = 2
    /\ frames[1].fields["HDRMaximumContentLightLevel"] = <<10000000>>
    /\ frames[2].fields["HDRMaximumContentLightLevel"] = <<40000001>>
    /\ frames[1].hdrFlag /\ frames[2].hdrFlag

\* C15: a createFrame whose packing succeeded returns 0 whatever fails in the
\* attach step (the interface query, any of the Set calls), and a failed Set
\* call skips nothing after it: both SetInt calls are made, and under EOTF 2
\* every mastering key gets its SetFloat call, in the fixed order.
C15_MetadataFailureNotFatal ==
    [][(Ran("createFrame")
        /\ \E i \in At(calls', "pack_pixel_format") : calls'[i].ok)
        => /\ lastRet' = 0
           /\ Attached(calls')
                => /\ Cardinality(At(calls', "SetInt")) = 2
                   /\ m_hdrMetadata.EOTF = 2
                        => \E first \in At(calls', "SetFloat") :
                              \A n \in 1..Len(MasteringKeys) :
                                 /\ first + n - 1 \in At(calls', "SetFloat")
                                 /\ calls'[first + n - 1].args[1] = MasteringKeys[n]]_vars

\* createFrame returned 0 although the Set call for the first mastering key
\* failed; the keys after it were still written to the frame
C15_Witness ==
    /\ lastOp = "createFrame" /\ lastRet = 0
    /\ \E i \in At(calls, "SetFloat") :
          calls[i].args[1] = "HDRDisplayPrimariesRedX" /\ ~calls[i].ok
    /\ frames[m_frame].fields["HDRDisplayPrimariesRedX"] = NoValue
    /\ frames[m_frame].fields["HDRMaximumFrameAverageLightLevel"] # NoValue

\* the entry points that ask for the catalog to be built
RebuildOps == {"cacheSupportedFormats", "setPixelFormat",
               "getSupportedPixelFormatCount", "getSupportedPixelFormatName"}

\* C16: once the catalog is built, no step of a live session issues a
\* capability probe or changes the catalog: every later rebuild, direct or
\* implied, is a no-op, whatever the device would answer now.
C16_CatalogBuiltOnce ==
    [][(m_formatsCached /\ session' = "live")
        => /\ m_formatsCached'
           /\ m_supportedFormats' = m_supportedFormats
           /\ At(calls', "DoesSupportVideoMode") = {}]_vars

\* a rebuild was asked for after the catalog had been built on the device with
\* two formats, and after a frame had been created
C16_Witness ==
    /\ lastOp \in RebuildOps /\ calls = <<>>
    /\ m_formatsCached
    /\ m_supportedFormats = <<bmdFormat10BitRGB, bmdFormat10BitYUV>>
    /\ m_frame # NoFrame

\* the tags of a catalog
Tags(formats) == {formats[i] : i \in 1..Len(formats)}

\* C17: a build with an output attached probes every candidate of the probe
\* list once and leaves in the catalog exactly the candidates whose probe call
\* succeeded and reported supported (a failed call counts as unsupported and
\* the build goes on); no tag is ever at two indices.
C17_CatalogIsExactlyTheSupportedTags ==
    [][/\ (session' = "live" /\ lastOp' \in RebuildOps /\ m_output
           /\ ~m_formatsCached)
            => /\ m_formatsCached'
               /\ Len(calls') = Len(ProbeList)
               /\ \A i \in 1..Len(ProbeList) :
                     /\ calls'[i].op = "DoesSupportVideoMode"
                     /\ calls'[i].args[1] = ProbeList[i]
               /\ Tags(m_supportedFormats')
                    = {calls'[i].args[1] :
                         i \in {j \in 1..Len(calls') :
                                  calls'[j].ok /\ calls'[j].args[2]}}
       /\ \A i, j \in 1..Len(m_supportedFormats') :
             m_supportedFormats'[i] = m_supportedFormats'[j] => i = j]_vars

\* the catalog was built on the device whose probe of 8-bit YUV fails although
\* it would report the format supported
C17_Witness ==
    /\ lastOp \in RebuildOps
    /\ \E i \in At(calls, "DoesSupportVideoMode") :
          calls[i].args = <<bmdFormat8BitYUV, TRUE>> /\ ~calls[i].ok
    /\ Tags(m_supportedFormats) = {bmdFormat8BitARGB, bmdFormat12BitRGBLE}

\* the position of a tag in the probe list
ProbeIndex(tag) == CHOOSE i \in 1..Len(ProbeList) : ProbeList[i] = tag

\* C18: the catalog lists its tags in probe order: of two tags in it, the one
\* probed first has the lower index.
C18_CatalogInProbeOrder ==
    \A i, j \in 1..Len(m_supportedFormats) :
        i < j <=> ProbeIndex(m_supportedFormats[i]) < ProbeIndex(m_supportedFormats[j])

\* C19: setPixelFormat(i) with i inside the catalog returns 0 and makes
\* catalog[i] the active format, and getPixelFormat then answers i; with i
\* outside it, or with no output attached, it returns -1 and leaves the active
\* format as it was. getPixelFormat answers -1 while the catalog is not built or
\* does not hold the active format, and otherwise an index at which the catalog
\* holds the active format.
C19_FormatSelectionRoundTrips ==
    [][/\ Ran("setPixelFormat")
            => LET i == lastArgs'[1] IN
               IF m_output /\ 0 <= i /\ i < Len(m_supportedFormats')
               THEN /\ lastRet' = 0
                    /\ m_pixelFormat' = m_supportedFormats'[i + 1]
                    /\ getPixelFormat' = i
               ELSE /\ lastRet' = 0 - 1
                    /\ m_pixelFormat' = m_pixelFormat
       /\ Ran("getPixelFormat")
            => /\ UNCHANGED <<m_pixelFormat, m_supportedFormats, m_formatsCached>>
               /\ IF ~m_formatsCached \/ m_pixelFormat \notin Tags(m_supportedFormats)
                  THEN lastRet' = 0 - 1
                  ELSE /\ lastRet' \in 0..(Len(m_supportedFormats) - 1)
                       /\ m_supportedFormats[lastRet' + 1] = m_pixelFormat]_vars

\* index 2 was selected on the device with eight formats and getPixelFormat
\* answered 2
C19_Witness ==
    /\ lastOp = "getPixelFormat" /\ lastRet = 2
    /\ Len(m_supportedFormats) = 8
    /\ m_pixelFormat = m_supportedFormats[3]
    /\ m_pixelFormat # bmdFormat12BitRGBLE

\* C20: every createFrame that gets past its preconditions first asks the
\* device for the stride of the current pixel format and stored width, and the
\* value the device returns in that call is the stride it passes to
\* CreateVideoFrame and to the packer, whatever stride an earlier frame had.
C20_StrideQueriedEveryTime ==
    [][(Ran("createFrame") /\ calls' # <<>>)
        => /\ calls'[1].op = "RowBytesForPixelFormat"
           /\ calls'[1].args[1] = m_pixelFormat /\ calls'[1].args[2] = m_width
           /\ At(calls', "RowBytesForPixelFormat") = {1}
           /\ \A i \in At(calls', "CreateVideoFrame") :
                 /\ calls'[1].ok
                 /\ calls'[i].args[3] = calls'[1].args[3]
                 /\ calls'[i].args[1] = m_width /\ calls'[i].args[4] = m_pixelFormat
           /\ \A i \in At(calls', "pack_pixel_format") :
                 calls'[i].args[5] = calls'[1].args[3]]_vars

\* after a frame with stride 16, the width and the format were changed and the
\* next frame was allocated and packed with the stride 32 the device then gave
C20_Witness ==
    /\ lastOp = "createFrame" /\ lastRet = 0
    /\ Len(frames) = 2 /\ frames[1].rowBytes = 16 /\ frames[2].rowBytes = 32
    /\ m_width = 2 /\ m_pixelFormat = bmdFormat10BitYUV
    /\ \E i \in At(calls, "pack_pixel_format") : calls[i].args[5] = 32

\* the source samples, width and height a trace hands the packer
PackedFrom(trace) ==
    {<<trace[i].args[2], trace[i].args[3], trace[i].args[4]>> :
        i \in At(trace, "pack_pixel_format")}

\* C21: createFrame leaves the pending buffer and the stored dimensions as they
\* were whether it returns 0 or fails, so a successful createFrame right after
\* another hands the packer the same samples, width and height; the buffer
\* changes only in a setFrameData that returns 0, which replaces all of it by
\* the width*height*3 samples it was given.
C21_CreateFrameKeepsPendingData ==
    [][/\ Ran("createFrame")
            => /\ UNCHANGED <<m_pendingFrameData, m_width, m_height>>
               /\ (lastOp = "createFrame" /\ lastRet = 0 /\ lastRet' = 0)
                    => (PackedFrom(calls') = PackedFrom(calls)
                        /\ PackedFrom(calls') # {})
       /\ (session' = "live" /\ m_pendingFrameData' # m_pendingFrameData)
            => /\ Ran("setFrameData") /\ lastRet' = 0
               /\ Len(m_pendingFrameData') = lastArgs'[2] * lastArgs'[3] * 3
               /\ \A i \in 1..Len(m_pendingFrameData') :
                     i <= Len(lastArgs'[1].buf)
                     => m_pendingFrameData'[i] = lastArgs'[1].buf[i]]_vars

\* two frames have been packed, the second from the same stored pixel
C21_Witness ==
    /\ lastOp = "createFrame" /\ lastRet = 0
    /\ Len(frames) = 2
    /\ frames[1].content = "packed" /\ frames[2].content = "packed"
    /\ m_pendingFrameData = Ramp(3, 100)
    /\ PackedFrom(calls) = {<<Ramp(3, 100), 1, 1>>}

\* C22: startOutput returns -1 when no output is attached and when the output
\* is already enabled, and otherwise 0 once the device has enabled the output.
C22_StartOutputTwiceFails ==
    [][Ran("startOutput")
        => /\ (~m_output \/ m_outputEnabled) => lastRet' = 0 - 1
           /\ lastRet' = 0
                => (m_outputEnabled' /\ Count(calls', "EnableVideoOutput", TRUE) = 1)]_vars

\* the calls stopOutput and the destructor make through m_output
OutputCalls(trace) ==
    At(trace, "StopScheduledPlayback") \cup At(trace, "DisableVideoOutput")
    \cup {i \in At(trace, "Release") : trace[i].args = <<"output">>}

\* C23: an enabled output is an attached output. m_outputEnabled turns true
\* only in a startOutput on an attached output whose EnableVideoOutput call
\* succeeded (a failed call leaves it false) and turns false only in stopOutput
\* or the destructor; neither of these calls the device through an absent
\* output, and stopOutput on an output that is not enabled returns 0 without a
\* device call.
C23_EnabledImpliesAttached ==
    [][/\ m_outputEnabled => m_output
       /\ m_outputEnabled' => m_output'
       /\ (~m_outputEnabled /\ m_outputEnabled')
            => /\ Ran("startOutput") /\ m_output /\ lastRet' = 0
               /\ Count(calls', "EnableVideoOutput", TRUE) = 1
       /\ (Ran("startOutput") /\ Count(calls', "EnableVideoOutput", FALSE) > 0)
            => (~m_outputEnabled' /\ lastRet' # 0)
       /\ (m_outputEnabled /\ ~m_outputEnabled')
            => lastOp' \in {"stopOutput", "close"}
       /\ ((Ran("stopOutput") \/ (session = "live" /\ session' = "closed"))
           /\ OutputCalls(calls') # {})
            => m_output
       /\ (Ran("stopOutput") /\ ~m_outputEnabled)
            => (lastRet' = 0 /\ calls' = <<>>)]_vars

\* EnableVideoOutput failed on an attached output and the flag stayed false
C23_Witness ==
    /\ lastOp = "startOutput" /\ lastRet = 0 - 1
    /\ m_output /\ ~m_outputEnabled
    /\ Count(calls, "EnableVideoOutput", FALSE) = 1

\* the Release calls of a trace made on resource res
Releases(trace, res) ==
    {i \in At(trace, "Release") : Len(trace[i].args) > 0 /\ trace[i].args[1] = res}

\* C24: after close, the output was stopped before anything was released, the
\* output and the device were released once each, and every frame the device
\* handed out during the session has been released, the frames replaced by a
\* later createFrame included.
C24_CloseReleasesEverything ==
    session = "closed"
    => /\ \A i \in At(calls, "StopScheduledPlayback") \cup At(calls, "DisableVideoOutput") :
             \A j \in At(calls, "Release") : i < j
       /\ Cardinality(Releases(calls, "output")) <= 1
       /\ Cardinality(Releases(calls, "device")) <= 1
       /\ \A f \in 1..Len(frames) : frames[f].released
====
